---- MODULE Spec2Model ----
(***************************************************************************)
(* Model of packages/core/src/nodes.rs: the VNode / Template data model,   *)
(* VNode::empty, VNode::dynamic_root, AttributeValue equality,             *)
(* AttributeValue::matches_type, the AnyValue blanket impl and the         *)
(* type-erased listener built by AttributeValue::new_listener.             *)
(***************************************************************************)
EXTENDS Integers, Sequences, FiniteSets, TLC

VARIABLES
    vnode,      \* the VNode under inspection
    element,    \* the value last returned by VNode::empty(), <<>> before any call
    idx,        \* the argument of the last dynamic_root call
    ret,        \* the outcome of the last dynamic_root call
    lhs,        \* self of the AttributeValue comparisons
    rhs,        \* other of the AttributeValue comparisons
    eqOut,      \* <<lhs == rhs>> once evaluated, <<>> before
    eqRevOut,   \* <<rhs == lhs>> once evaluated, <<>> before
    mtOut,      \* <<lhs.matches_type(rhs)>> once evaluated, <<>> before
    listener,   \* the AttributeValue::Listener built by new_listener
    calls,      \* the UiEvent<T> values the captured callback was invoked with
    dispatched  \* the UiEvent<dyn Any> values handed to the erased callback

vars == <<vnode, element, idx, ret, lhs, rhs, eqOut, eqRevOut, mtOut,
          listener, calls, dispatched>>

vnodeVars == <<vnode, element, idx, ret>>
attrVars == <<lhs, rhs, eqOut, eqRevOut, mtOut>>
listenerVars == <<listener, calls, dispatched>>

(***************************************************************************)
(* Bounds                                                                  *)
(***************************************************************************)
MaxRoots == 2
MaxDyn == 2
MaxInt == 2
MaxEvents == 2

SeqsUpTo(S, n) == UNION {[1..k -> S] : k \in 0..n}

(***************************************************************************)
(* Template, TemplateNode, DynamicNode, VNode                              *)
(***************************************************************************)
Dynamic(id) == [tag |-> "Dynamic", id |-> id]
DynamicText(id) == [tag |-> "DynamicText", id |-> id]
Text(s) == [tag |-> "Text", text |-> s]
Element(children) == [tag |-> "Element", children |-> children]

\* The root-level TemplateNode values the model draws from: static elements
\* (without children, and with one dynamic text child), a static text and
\* the two placeholders with every slot index below MaxDyn.
TemplateNode ==
    {Element(<<>>), Element(<<DynamicText(0)>>), Text("static")}
        \cup {Dynamic(k) : k \in 0..(MaxDyn - 1)}
        \cup {DynamicText(k) : k \in 0..(MaxDyn - 1)}

Template(id, roots, node_paths, attr_paths) ==
    [id |-> id, roots |-> roots, node_paths |-> node_paths, attr_paths |-> attr_paths]

VText(value) == [tag |-> "Text", value |-> value]
VFragmentEmpty == [tag |-> "Fragment", kind |-> "Empty"]
DynamicNode == {VText("hi"), VFragmentEmpty}

\* The path of every placeholder of the roots, roots first and then the
\* child of an element root.
RECURSIVE PathsFrom(_, _)
PathsFrom(roots, i) ==
    IF i > Len(roots) THEN <<>>
    ELSE LET r == roots[i]
             here == IF r.tag \in {"Dynamic", "DynamicText"} THEN << <<i - 1>> >>
                     ELSE IF r.tag = "Element" /\ Len(r.children) > 0
                          THEN << <<i - 1, 0>> >>
                          ELSE <<>>
         IN here \o PathsFrom(roots, i + 1)

\* A VNode as a struct literal: the fields are public and nothing relates
\* the template's placeholders to the length of dynamic_nodes.
VNode(roots, dynamic_nodes) ==
    [key |-> "None",
     parent |-> "None",
     template |-> Template("call-site", roots, PathsFrom(roots, 1), <<>>),
     root_ids |-> [i \in 1..Len(roots) |-> 0],
     dynamic_nodes |-> dynamic_nodes,
     dynamic_attrs |-> <<>>]

VNodes ==
    {VNode(r, d) : r \in SeqsUpTo(TemplateNode, MaxRoots),
                   d \in SeqsUpTo(DynamicNode, MaxDyn)}

Ok(v) == [tag |-> "Ok", val |-> v]

\* A sentinel whose template keeps one static root.
empty_with_root ==
    Ok([key |-> "None",
        parent |-> "None",
        root_ids |-> <<0>>,
        dynamic_nodes |-> <<>>,
        dynamic_attrs |-> <<>>,
        template |-> Template("dioxus-empty", <<Text("")>>, <<>>, <<>>)])

empty ==
    Ok([key |-> "None",
        parent |-> "None",
        root_ids |-> <<>>,
        dynamic_nodes |-> <<>>,
        dynamic_attrs |-> <<>>,
        template |-> Template("dioxus-empty", <<>>, <<>>, <<>>)])

OptNone == [tag |-> "None"]
Some(v) == [tag |-> "Some", val |-> v]
Panic(at) == [tag |-> "panic", at |-> at]
Uncalled == [tag |-> "uncalled"]

\* The lookup written with roots.get(idx): a root index out of bounds
\* yields None instead of a panic.
dynamic_root_get(self, i) ==
    IF i >= Len(self.template.roots) THEN OptNone
    ELSE LET r == self.template.roots[i + 1]
         IN IF r.tag \in {"Element", "Text"} THEN OptNone
            ELSE IF r.id >= Len(self.dynamic_nodes) THEN Panic("dynamic_nodes")
                 ELSE Some(self.dynamic_nodes[r.id + 1])

\* Slice indexing: an index at or beyond the length panics.
dynamic_root(self, i) ==
    IF i >= Len(self.template.roots) THEN Panic("roots")
    ELSE LET r == self.template.roots[i + 1]
         IN IF r.tag \in {"Element", "Text"} THEN OptNone
            ELSE IF r.id >= Len(self.dynamic_nodes) THEN Panic("dynamic_nodes")
                 ELSE Some(self.dynamic_nodes[r.id + 1])

CallEmpty ==
    /\ element' = <<empty>>
    /\ vnode' = empty.val
    /\ ret' = Uncalled
    /\ idx' = 0
    /\ UNCHANGED <<attrVars, listenerVars>>

CallDynamicRoot(i) ==
    /\ idx' = i
    /\ ret' = dynamic_root(vnode, i)
    /\ UNCHANGED <<vnode, element, attrVars, listenerVars>>

(***************************************************************************)
(* AttributeValue                                                          *)
(***************************************************************************)
\* An f32 by its IEEE-754 fields: sign bit, biased exponent, mantissa.
F32(sign, exp, mant) == [sign |-> sign, exp |-> exp, mant |-> mant]
PosZero == F32(0, 0, 0)
NegZero == F32(1, 0, 0)
One == F32(0, 127, 0)
NaN == F32(0, 255, 4194304)
F32Vals == {PosZero, NegZero, One, NaN}

IsNaN(x) == x.exp = 255 /\ x.mant # 0
IsZero(x) == x.exp = 0 /\ x.mant = 0

\* A comparison of the bit patterns (f32::to_bits).
F32BitsEq(x, y) == x = y

\* f32's PartialEq: a NaN equals nothing, the two zeros are equal, every
\* other pair is equal exactly when the fields agree.
F32Eq(x, y) ==
    IF IsNaN(x) \/ IsNaN(y) THEN FALSE
    ELSE IF IsZero(x) /\ IsZero(y) THEN TRUE
    ELSE x = y

\* The concrete types stored behind dyn AnyValue, each with its values.
AnyTypes == {"i32", "u32", "f32"}
BoxedInt(ty, n) == [ty |-> ty, int |-> n]
BoxedFloat(f) == [ty |-> "f32", float |-> f]
AnyValue ==
    {BoxedInt(ty, n) : ty \in {"i32", "u32"}, n \in 1..MaxInt}
        \cup {BoxedFloat(f) : f \in {PosZero, NegZero, NaN}}

\* T's own PartialEq, on two values of the same type T.
PartialEqOf(ty, x, y) ==
    CASE ty = "i32" -> x.int = y.int
      [] ty = "u32" -> x.int = y.int
      [] ty = "f32" -> F32Eq(x.float, y.float)

PayloadTypes == {"MouseData", "KeyboardData"}
Callbacks == {"callback1", "callback2"}

\* The content of a Listener's RefCell<Option<BumpBox<dyn FnMut>>>: absent,
\* or the boxed closure that downcasts to T and calls the captured callback.
Boxed(T, callback) == [tag |-> "Some", T |-> T, callback |-> callback]
ListenerCells == {OptNone} \cup {Boxed(T, c) : T \in PayloadTypes, c \in Callbacks}

AttributeValue_Text(s) == [tag |-> "Text", text |-> s]
AttributeValue_Float(f) == [tag |-> "Float", float |-> f]
AttributeValue_Int(i) == [tag |-> "Int", int |-> i]
AttributeValue_Bool(b) == [tag |-> "Bool", bool |-> b]
AttributeValue_Listener(cell) == [tag |-> "Listener", cell |-> cell]
AttributeValue_Any(box) == [tag |-> "Any", any |-> box]
AttributeValue_None == [tag |-> "None"]

AttributeValue ==
    {AttributeValue_Text(s) : s \in {"a", "b"}}
        \cup {AttributeValue_Float(f) : f \in F32Vals}
        \cup {AttributeValue_Int(i) : i \in 1..MaxInt}
        \cup {AttributeValue_Bool(b) : b \in BOOLEAN}
        \cup {AttributeValue_Listener(c) : c \in ListenerCells}
        \cup {AttributeValue_Any(x) : x \in AnyValue}
        \cup {AttributeValue_None}

our_typeid(self) == self.ty

\* The type check written with other.type_id(), the TypeId of dyn AnyValue
\* itself: it differs from every concrete T.
any_cmp_dyn_typeid(self, other) ==
    IF self.ty # "dyn AnyValue" THEN FALSE
    ELSE PartialEqOf(self.ty, self, other)

\* The reinterpretation of other as T is reached only with equal type ids.
any_cmp(self, other) ==
    IF self.ty # our_typeid(other) THEN FALSE
    ELSE PartialEqOf(self.ty, self, other)

discriminant(self) == self.tag

\* Equality whose Listener arm compares the callback cells.
eq_listener_identity(self, other) ==
    CASE self.tag = "Text" /\ other.tag = "Text" -> self.text = other.text
      [] self.tag = "Float" /\ other.tag = "Float" -> F32Eq(self.float, other.float)
      [] self.tag = "Int" /\ other.tag = "Int" -> self.int = other.int
      [] self.tag = "Bool" /\ other.tag = "Bool" -> self.bool = other.bool
      [] self.tag = "Listener" /\ other.tag = "Listener" -> self.cell = other.cell
      [] self.tag = "Any" /\ other.tag = "Any" -> any_cmp(self.any, other.any)
      [] OTHER -> discriminant(self) = discriminant(other)

\* Equality whose fallback arm is false, as in matches_type.
eq_fallback_false(self, other) ==
    CASE self.tag = "Text" /\ other.tag = "Text" -> self.text = other.text
      [] self.tag = "Float" /\ other.tag = "Float" -> F32Eq(self.float, other.float)
      [] self.tag = "Int" /\ other.tag = "Int" -> self.int = other.int
      [] self.tag = "Bool" /\ other.tag = "Bool" -> self.bool = other.bool
      [] self.tag = "Listener" /\ other.tag = "Listener" -> TRUE
      [] self.tag = "Any" /\ other.tag = "Any" -> any_cmp(self.any, other.any)
      [] OTHER -> FALSE

eq(self, other) ==
    CASE self.tag = "Text" /\ other.tag = "Text" -> self.text = other.text
      [] self.tag = "Float" /\ other.tag = "Float" -> F32Eq(self.float, other.float)
      [] self.tag = "Int" /\ other.tag = "Int" -> self.int = other.int
      [] self.tag = "Bool" /\ other.tag = "Bool" -> self.bool = other.bool
      [] self.tag = "Listener" /\ other.tag = "Listener" -> TRUE
      [] self.tag = "Any" /\ other.tag = "Any" -> any_cmp(self.any, other.any)
      [] OTHER -> discriminant(self) = discriminant(other)

matches_type(self, other) ==
    CASE self.tag = "Text" /\ other.tag = "Text" -> TRUE
      [] self.tag = "Float" /\ other.tag = "Float" -> TRUE
      [] self.tag = "Int" /\ other.tag = "Int" -> TRUE
      [] self.tag = "Bool" /\ other.tag = "Bool" -> TRUE
      [] self.tag = "Listener" /\ other.tag = "Listener" -> TRUE
      [] self.tag = "Any" /\ other.tag = "Any" -> TRUE
      [] OTHER -> FALSE

CallEq ==
    /\ eqOut' = <<eq(lhs, rhs)>>
    /\ UNCHANGED <<lhs, rhs, eqRevOut, mtOut, vnodeVars, listenerVars>>

CallEqReversed ==
    /\ eqRevOut' = <<eq(rhs, lhs)>>
    /\ UNCHANGED <<lhs, rhs, eqOut, mtOut, vnodeVars, listenerVars>>

CallMatchesType ==
    /\ mtOut' = <<matches_type(lhs, rhs)>>
    /\ UNCHANGED <<lhs, rhs, eqOut, eqRevOut, vnodeVars, listenerVars>>

(***************************************************************************)
(* AttributeValue::new_listener and the erased callback                    *)
(***************************************************************************)
Payloads == 1..2

\* UiEvent<dyn Any>: the payload carries its concrete type.
UiEvent(bubbles, ty, payload) ==
    [bubbles |-> bubbles, data |-> [ty |-> ty, val |-> payload]]
UiEvents == {UiEvent(b, ty, p) : b \in BOOLEAN, ty \in PayloadTypes, p \in Payloads}

\* Rc<dyn Any>::downcast::<T>().
downcast(data, T) ==
    IF data.ty = T THEN [tag |-> "Ok", val |-> data] ELSE [tag |-> "Err", val |-> data]

\* The closure without the downcast test: every event reaches the callback.
erased_callback_unchecked(T, log, event) ==
    Append(log, [bubbles |-> event.bubbles, data |-> event.data])

\* The closure new_listener boxes, applied to an event with the captured
\* callback's invocation log: the log after the call.
erased_callback(T, log, event) ==
    LET d == downcast(event.data, T)
    IN IF d.tag = "Ok"
       THEN Append(log, [bubbles |-> event.bubbles, data |-> d.val])
       ELSE log

new_listener(T, callback) == AttributeValue_Listener(Boxed(T, callback))


NewListener(T, callback) ==
    /\ listener' = new_listener(T, callback)
    /\ calls' = <<>>
    /\ dispatched' = <<>>
    /\ UNCHANGED <<vnodeVars, attrVars>>

Dispatch(event) ==
    /\ Len(dispatched) < MaxEvents
    /\ listener.tag = "Listener"
    /\ listener.cell.tag = "Some"
    /\ dispatched' = Append(dispatched, event)
    /\ calls' = erased_callback(listener.cell.T, calls, event)
    /\ UNCHANGED <<listener, vnodeVars, attrVars>>

(***************************************************************************)
(* Specifications                                                          *)
(***************************************************************************)
VNodeIdle ==
    /\ vnode = empty.val
    /\ element = <<>>
    /\ idx = 0
    /\ ret = Uncalled

AttrIdle ==
    /\ lhs = AttributeValue_None
    /\ rhs = AttributeValue_None
    /\ eqOut = <<>>
    /\ eqRevOut = <<>>
    /\ mtOut = <<>>

ListenerIdle ==
    /\ listener = new_listener("MouseData", "callback1")
    /\ calls = <<>>
    /\ dispatched = <<>>

InitVNode ==
    /\ vnode \in VNodes
    /\ element = <<>>
    /\ idx = 0
    /\ ret = Uncalled
    /\ AttrIdle
    /\ ListenerIdle

NextVNode ==
    \/ CallEmpty
    \/ \E i \in 0..MaxRoots : CallDynamicRoot(i)

SpecVNode == InitVNode /\ [][NextVNode]_vars

InitAttr ==
    /\ lhs \in AttributeValue
    /\ rhs \in AttributeValue
    /\ eqOut = <<>>
    /\ eqRevOut = <<>>
    /\ mtOut = <<>>
    /\ VNodeIdle
    /\ ListenerIdle

NextAttr ==
    \/ CallEq
    \/ CallEqReversed
    \/ CallMatchesType

SpecAttr == InitAttr /\ [][NextAttr]_vars

InitListener ==
    /\ \E T \in PayloadTypes, c \in Callbacks : listener = new_listener(T, c)
    /\ calls = <<>>
    /\ dispatched = <<>>
    /\ VNodeIdle
    /\ AttrIdle

NextListener ==
    \/ \E T \in PayloadTypes, c \in Callbacks : NewListener(T, c)
    \/ \E event \in UiEvents : Dispatch(event)

SpecListener == InitListener /\ [][NextListener]_vars

(***************************************************************************)
(* Properties of VNode::empty and VNode::dynamic_root (SpecVNode)          *)
(***************************************************************************)
Called == ret.tag # "uncalled"
InBounds == idx < Len(vnode.template.roots)
Root == vnode.template.roots[idx + 1]
IsPlaceholder(r) == r.tag \in {"Dynamic", "DynamicText"}

\* C1: for every VNode and every root index within the template's roots,
\* dynamic_root returns dynamic_nodes[k] when the root is Dynamic(k) or
\* DynamicText(k), and nothing when the root is an Element or a static Text.
C1_DynamicRootReturnsSlot ==
    (Called /\ InBounds) =>
        IF IsPlaceholder(Root)
        THEN /\ ret.tag = "Some"
             /\ Root.id < Len(vnode.dynamic_nodes)
             /\ ret.val = vnode.dynamic_nodes[Root.id + 1]
        ELSE ret.tag = "None"

\* C3 as stated: VNode::empty() is Ok(VNode) with zero roots, node paths,
\* attr paths, root ids, dynamic nodes and dynamic attributes, and
\* dynamic_root on it returns "no dynamic node" for any index.
C3_EmptyLookupReturnsNone ==
    element # <<>> =>
        /\ element[1].tag = "Ok"
        /\ Len(element[1].val.template.roots) = 0
        /\ Len(element[1].val.template.node_paths) = 0
        /\ Len(element[1].val.template.attr_paths) = 0
        /\ Len(element[1].val.root_ids) = 0
        /\ Len(element[1].val.dynamic_nodes) = 0
        /\ Len(element[1].val.dynamic_attrs) = 0
        /\ (vnode = element[1].val /\ Called) => ret.tag = "None"

\* C3 amended: VNode::empty() is Ok(VNode) with zero roots, node paths,
\* attr paths, root ids, dynamic nodes and dynamic attributes, and
\* dynamic_root on it panics on the roots index for any index.
C3_EmptyLookupFailsFast ==
    element # <<>> =>
        /\ element[1].tag = "Ok"
        /\ Len(element[1].val.template.roots) = 0
        /\ Len(element[1].val.template.node_paths) = 0
        /\ Len(element[1].val.template.attr_paths) = 0
        /\ Len(element[1].val.root_ids) = 0
        /\ Len(element[1].val.dynamic_nodes) = 0
        /\ Len(element[1].val.dynamic_attrs) = 0
        /\ (vnode = element[1].val /\ Called) => ret = Panic("roots")

C3_Witness ==
    /\ element # <<>>
    /\ vnode = element[1].val
    /\ idx > 0
    /\ ret.tag = "panic"

\* C4: dynamic_root with a root index at or beyond the number of template
\* roots panics; it returns neither a node nor nothing.
C4_OutOfBoundsFailsFast ==
    (Called /\ ~InBounds) => ret = Panic("roots")

C4_Witness ==
    /\ Called
    /\ Len(vnode.template.roots) > 0
    /\ idx >= Len(vnode.template.roots)
    /\ ret.tag = "panic"

\* C5: no VNode has a root placeholder index at or beyond the length of
\* dynamic_nodes (a mismatched VNode is rejected when it is constructed), so
\* dynamic_root never fails on a placeholder root.
C5_MismatchRejectedAtConstruction ==
    (Called /\ InBounds /\ IsPlaceholder(Root)) =>
        /\ Root.id < Len(vnode.dynamic_nodes)
        /\ ret.tag = "Some"

(***************************************************************************)
(* Properties of AttributeValue (SpecAttr)                                 *)
(***************************************************************************)
Primitive == {"Text", "Float", "Int", "Bool"}
SameVariant == lhs.tag = rhs.tag
BothAny == lhs.tag = "Any" /\ rhs.tag = "Any"

\* C2: matches_type(a, b) is true if and only if a and b are the same
\* variant (Text, Float, Int, Bool, Listener, Any or None).
C2_MatchesTypeIffSameVariant ==
    mtOut # <<>> => mtOut[1] = SameVariant

\* C7: two Any values wrapping different concrete types are unequal while
\* matches_type is true; two wrapping the same concrete type are equal
\* exactly when that type's own comparison says so.
C7_AnyEquality ==
    BothAny =>
        /\ (eqOut # <<>> /\ lhs.any.ty # rhs.any.ty) => eqOut[1] = FALSE
        /\ (mtOut # <<>> /\ lhs.any.ty # rhs.any.ty) => mtOut[1] = TRUE
        /\ (eqOut # <<>> /\ lhs.any.ty = rhs.any.ty) =>
               eqOut[1] = PartialEqOf(lhs.any.ty, lhs.any, rhs.any)

C7_Witness ==
    /\ lhs = AttributeValue_Any(BoxedInt("i32", 1))
    /\ rhs = AttributeValue_Any(BoxedInt("u32", 1))
    /\ eqOut = <<FALSE>>
    /\ mtOut = <<TRUE>>

\* The value a primitive variant contains.
Contained(a) ==
    CASE a.tag = "Text" -> <<a.text>>
      [] a.tag = "Float" -> <<a.float>>
      [] a.tag = "Int" -> <<a.int>>
      [] a.tag = "Bool" -> <<a.bool>>

\* C8 as stated: two values of the same primitive variant (Text, Int, Bool,
\* Float) are equal exactly when the contained values are the same, with
\* matches_type true either way; for different variants matches_type is
\* false.
C8_PrimitiveEquality ==
    /\ (SameVariant /\ lhs.tag \in Primitive /\ eqOut # <<>>) =>
           eqOut[1] = (Contained(lhs) = Contained(rhs))
    /\ (SameVariant /\ lhs.tag \in Primitive /\ mtOut # <<>>) => mtOut[1] = TRUE
    /\ (~SameVariant /\ mtOut # <<>>) => mtOut[1] = FALSE

\* C8 amended: two Text, Int or Bool values are equal exactly when the
\* contained values are the same; two Float values are equal exactly when
\* neither is NaN and they are the same or both zeros of either sign;
\* matches_type is true for the same primitive variant either way and false
\* for different variants.
C8_PrimitiveEqualityIEEE ==
    /\ (SameVariant /\ lhs.tag \in Primitive \ {"Float"} /\ eqOut # <<>>) =>
           eqOut[1] = (Contained(lhs) = Contained(rhs))
    /\ (SameVariant /\ lhs.tag = "Float" /\ eqOut # <<>>) =>
           eqOut[1] = /\ ~IsNaN(lhs.float)
                      /\ ~IsNaN(rhs.float)
                      /\ \/ lhs.float = rhs.float
                         \/ IsZero(lhs.float) /\ IsZero(rhs.float)
    /\ (SameVariant /\ lhs.tag \in Primitive /\ mtOut # <<>>) => mtOut[1] = TRUE
    /\ (~SameVariant /\ mtOut # <<>>) => mtOut[1] = FALSE

C8_Witness ==
    /\ lhs = AttributeValue_Float(NaN)
    /\ rhs = AttributeValue_Float(NaN)
    /\ eqOut = <<FALSE>>
    /\ mtOut = <<TRUE>>

\* C9: any two Listener values are equal, whatever callback each captured
\* and whether or not either callback cell is empty.
C9_ListenersEqual ==
    (lhs.tag = "Listener" /\ rhs.tag = "Listener") =>
        /\ eqOut # <<>> => eqOut[1] = TRUE
        /\ eqRevOut # <<>> => eqRevOut[1] = TRUE

C9_Witness ==
    /\ lhs = AttributeValue_Listener(Boxed("MouseData", "callback1"))
    /\ rhs = AttributeValue_Listener(OptNone)
    /\ eqOut = <<TRUE>>
    /\ eqRevOut = <<TRUE>>

\* C10: over the Text, Int, Bool, Listener, Any and None variants, a == b
\* agrees with b == a, values of different variants are never equal, and
\* None equals None.
C10_SymmetricVariantSeparating ==
    (lhs.tag # "Float" /\ rhs.tag # "Float") =>
        /\ (eqOut # <<>> /\ eqRevOut # <<>>) => eqOut[1] = eqRevOut[1]
        /\ (eqOut # <<>> /\ ~SameVariant) => eqOut[1] = FALSE
        /\ (eqOut # <<>> /\ lhs.tag = "None" /\ rhs.tag = "None") => eqOut[1] = TRUE

C10_Witness ==
    /\ lhs = AttributeValue_None
    /\ rhs = AttributeValue_None
    /\ eqOut = <<TRUE>>
    /\ eqRevOut = <<TRUE>>

(***************************************************************************)
(* Properties of the listener built by new_listener (SpecListener)         *)
(***************************************************************************)
OfListenerType(event) == event.data.ty = listener.cell.T

\* C6: the captured callback has been invoked exactly once for each
\* dispatched event whose payload is of the listener's type T, with that
\* event's payload and bubbles flag and in dispatch order, and not at all
\* for the other events.
C6_CallsAreTheMatchingEvents ==
    calls = SelectSeq(dispatched, OfListenerType)

C6_Witness ==
    /\ Len(dispatched) = 2
    /\ OfListenerType(dispatched[1])
    /\ ~OfListenerType(dispatched[2])
    /\ Len(calls) = 1
    /\ calls[1] = dispatched[1]

====
